---- MODULE Spec2Model ----
\* Model of the MARC21 field 006 ("Additional Material Characteristics")
\* positional codec of marcr: the code tables of
\* src/additional_material_characteristics.rs (enums deriving num_enum's
\* FromPrimitive / IntoPrimitive), the record type
\* AdditionalMaterialCharacteristics and the positions its doc comments bind
\* to each field.  Bytes are modelled by their ASCII codes.
EXTENDS Integers, Naturals, Sequences, FiniteSets, TLC

VARIABLES op, table, key, variant, pair, kind, field, record, output

tvars == <<op, table, key, variant, pair>>
cvars == <<kind, field, record, output>>
vars == <<op, table, key, variant, pair, kind, field, record, output>>

\* ------------------------------------------------------------------------
\* Key types of the tables: #[repr(u8)] and #[repr(u16)].
U8 == 0..255
U16 == 0..65535

\* The discriminants of the two-byte tables,
\* `(b"xy"[0] as u16) << 8 | b"xy"[1] as u16`: the first byte is the high
\* byte.  The low 8 bits of h << 8 are zero, so the bitwise or is an addition.
\* (a shift by 4 instead of 8)
PackNarrow(h, l) == ((h * 16) % 65536) + l
\* (the second byte as the high byte)
PackSwapped(h, l) == ((l * 256) % 65536) + h
Pack(h, l) == ((h * 256) % 65536) + l

\* The bytes of a key, most significant first (u16 keys) or the byte itself.
HighByte(k) == k \div 256
LowByte(k) == k % 256

\* ------------------------------------------------------------------------
\* The code tables.  Each is the enum of the same name: its variants with
\* their discriminants, the width of its repr in bytes, and the variant
\* marked #[default].

\* Illustration (#[repr(u8)]): None='#' Some='a' Maps='b' Portraits='c' Charts='d' Plans='e' Plates='f' Music='g' Facsimiles='h' CoatsOfArms='i' GenealogicalTables='j' Forms='k' Samples='l' Phonodiscs='m' Photographs='o' Illuminations='p' NotCoded='|'
Illustration ==
  [name |-> "Illustration", width |-> 1, default |-> "NotCoded", variants |-> {
      <<"None", 35>>, <<"Some", 97>>, <<"Maps", 98>>, <<"Portraits", 99>>, <<"Charts", 100>>,
      <<"Plans", 101>>, <<"Plates", 102>>, <<"Music", 103>>, <<"Facsimiles", 104>>,
      <<"CoatsOfArms", 105>>, <<"GenealogicalTables", 106>>, <<"Forms", 107>>,
      <<"Samples", 108>>, <<"Phonodiscs", 109>>, <<"Photographs", 111>>,
      <<"Illuminations", 112>>, <<"NotCoded", 124>>}]

\* TargetAudience (#[repr(u8)]): Unknown='#' Preschool='a' Primary='b' PreAdolescent='c' Adolescent='d' Adult='e' Specialized='f' General='g' Juvenile='j' NotCoded='|'
TargetAudience ==
  [name |-> "TargetAudience", width |-> 1, default |-> "NotCoded", variants |-> {
      <<"Unknown", 35>>, <<"Preschool", 97>>, <<"Primary", 98>>, <<"PreAdolescent", 99>>,
      <<"Adolescent", 100>>, <<"Adult", 101>>, <<"Specialized", 102>>, <<"General", 103>>,
      <<"Juvenile", 106>>, <<"NotCoded", 124>>}]

\* FormOfItem (#[repr(u8)]): None='#' Microfilm='a' Microfiche='b' Microopaque='c' LargePrint='d' Newspaper='e' Braille='f' Online='o' DirectElectronic='q' PrintReproduction='r' Electronic='s' NotCoded='|'
FormOfItem ==
  [name |-> "FormOfItem", width |-> 1, default |-> "NotCoded", variants |-> {
      <<"None", 35>>, <<"Microfilm", 97>>, <<"Microfiche", 98>>, <<"Microopaque", 99>>,
      <<"LargePrint", 100>>, <<"Newspaper", 101>>, <<"Braille", 102>>, <<"Online", 111>>,
      <<"DirectElectronic", 113>>, <<"PrintReproduction", 114>>, <<"Electronic", 115>>,
      <<"NotCoded", 124>>}]

\* NatureOfContents (#[repr(u8)]): None='#' Abstracts='a' Bibliographies='b' Catalogs='c' Dictionaries='d' Encyclopedias='e' Handbooks='f' LegalArticles='g' Indexes='i' PatentDocument='j' Discographies='k' Legislation='l' Theses='m' SurveysOfLiterature='n' Reviews='o' ProgrammedTexts='p' Filmographies='q' Directories='r' Statistics='s' TechnicalReports='t' Standards='u' LegalCases='v' LawReports='w' Yearbooks='y' Treaties='z' Offprints='2' Calendars='5' Comics='6' NotCoded='|'
NatureOfContents ==
  [name |-> "NatureOfContents", width |-> 1, default |-> "NotCoded", variants |-> {
      <<"None", 35>>, <<"Abstracts", 97>>, <<"Bibliographies", 98>>, <<"Catalogs", 99>>,
      <<"Dictionaries", 100>>, <<"Encyclopedias", 101>>, <<"Handbooks", 102>>,
      <<"LegalArticles", 103>>, <<"Indexes", 105>>, <<"PatentDocument", 106>>,
      <<"Discographies", 107>>, <<"Legislation", 108>>, <<"Theses", 109>>,
      <<"SurveysOfLiterature", 110>>, <<"Reviews", 111>>, <<"ProgrammedTexts", 112>>,
      <<"Filmographies", 113>>, <<"Directories", 114>>, <<"Statistics", 115>>,
      <<"TechnicalReports", 116>>, <<"Standards", 117>>, <<"LegalCases", 118>>,
      <<"LawReports", 119>>, <<"Yearbooks", 121>>, <<"Treaties", 122>>, <<"Offprints", 50>>,
      <<"Calendars", 53>>, <<"Comics", 54>>, <<"NotCoded", 124>>}]

\* GovernmentPublication (#[repr(u8)]): None='#' Autonomous='a' Multilocal='c' Federal='f' International='i' Local='l' Multistate='m' Undetermined='o' State='s' Unknown='u' Other='z' NotCoded='|'
GovernmentPublication ==
  [name |-> "GovernmentPublication", width |-> 1, default |-> "NotCoded", variants |-> {
      <<"None", 35>>, <<"Autonomous", 97>>, <<"Multilocal", 99>>, <<"Federal", 102>>,
      <<"International", 105>>, <<"Local", 108>>, <<"Multistate", 109>>,
      <<"Undetermined", 111>>, <<"State", 115>>, <<"Unknown", 117>>, <<"Other", 122>>,
      <<"NotCoded", 124>>}]

\* ConferencePublication (#[repr(u8)]): NonConference='0' Conference='1' NotCoded='|'
ConferencePublication ==
  [name |-> "ConferencePublication", width |-> 1, default |-> "NotCoded", variants |-> {
      <<"NonConference", 48>>, <<"Conference", 49>>, <<"NotCoded", 124>>}]

\* Festschrift (#[repr(u8)]): NotFestschrift='0' Festschrift='1' NotCoded='|'
Festschrift ==
  [name |-> "Festschrift", width |-> 1, default |-> "NotCoded", variants |-> {
      <<"NotFestschrift", 48>>, <<"Festschrift", 49>>, <<"NotCoded", 124>>}]

\* Index (#[repr(u8)]): None='0' Index='1' NotCoded='|'
Index ==
  [name |-> "Index", width |-> 1, default |-> "NotCoded", variants |-> {
      <<"None", 48>>, <<"Index", 49>>, <<"NotCoded", 124>>}]

\* LiteraryForm (#[repr(u8)]): NotFiction='0' Fiction='1' Dramas='d' Essays='e' Novels='f' Humor='h' Letters='i' ShortStories='j' MixedForms='m' Poetry='p' Speeches='s' Unknown='u' NotCoded='|'
LiteraryForm ==
  [name |-> "LiteraryForm", width |-> 1, default |-> "NotCoded", variants |-> {
      <<"NotFiction", 48>>, <<"Fiction", 49>>, <<"Dramas", 100>>, <<"Essays", 101>>,
      <<"Novels", 102>>, <<"Humor", 104>>, <<"Letters", 105>>, <<"ShortStories", 106>>,
      <<"MixedForms", 109>>, <<"Poetry", 112>>, <<"Speeches", 115>>, <<"Unknown", 117>>,
      <<"NotCoded", 124>>}]

\* Biography (#[repr(u8)]): None='#' Autobiography='a' Individual='b' Collective='c' Contains='d' NotCoded='|'
Biography ==
  [name |-> "Biography", width |-> 1, default |-> "NotCoded", variants |-> {
      <<"None", 35>>, <<"Autobiography", 97>>, <<"Individual", 98>>, <<"Collective", 99>>,
      <<"Contains", 100>>, <<"NotCoded", 124>>}]

\* FileType (#[repr(u8)]): Numeric='a' ComputerProgram='b' Representational='c' Document='d' Bibliographic='e' Font='f' Game='g' Sound='h' InteractiveMultimedia='i' OnlineSystem='j' Combination='m' Unknown='u' Other='z' NotCoded='|'
FileType ==
  [name |-> "FileType", width |-> 1, default |-> "NotCoded", variants |-> {
      <<"Numeric", 97>>, <<"ComputerProgram", 98>>, <<"Representational", 99>>,
      <<"Document", 100>>, <<"Bibliographic", 101>>, <<"Font", 102>>, <<"Game", 103>>,
      <<"Sound", 104>>, <<"InteractiveMultimedia", 105>>, <<"OnlineSystem", 106>>,
      <<"Combination", 109>>, <<"Unknown", 117>>, <<"Other", 122>>, <<"NotCoded", 124>>}]

\* Relief (#[repr(u8)]): None='#' Contours='a' Shading='b' Gradient='c' Hachures='d' Bathymetry='e' FormLines='f' SpotHeights='g' Pictorially='i' LandForms='j' Isolines='k' RockDrawings='m' Other='z' NotCoded='|'
\* (#[default] on None instead of NotCoded)
ReliefDefaultNone ==
  [name |-> "Relief", width |-> 1, default |-> "None", variants |-> {
      <<"None", 35>>, <<"Contours", 97>>, <<"Shading", 98>>, <<"Gradient", 99>>,
      <<"Hachures", 100>>, <<"Bathymetry", 101>>, <<"FormLines", 102>>, <<"SpotHeights", 103>>,
      <<"Pictorially", 105>>, <<"LandForms", 106>>, <<"Isolines", 107>>,
      <<"RockDrawings", 109>>, <<"Other", 122>>, <<"NotCoded", 124>>}]

Relief ==
  [name |-> "Relief", width |-> 1, default |-> "NotCoded", variants |-> {
      <<"None", 35>>, <<"Contours", 97>>, <<"Shading", 98>>, <<"Gradient", 99>>,
      <<"Hachures", 100>>, <<"Bathymetry", 101>>, <<"FormLines", 102>>, <<"SpotHeights", 103>>,
      <<"Pictorially", 105>>, <<"LandForms", 106>>, <<"Isolines", 107>>,
      <<"RockDrawings", 109>>, <<"Other", 122>>, <<"NotCoded", 124>>}]

\* Projection (#[repr(u16)]): NotSpecified='##' Aitoff='aa' Gnomic='ab' LambertAzimuthal='ac' Orthographic='ad' AzimuthalEquidistant='ae' Stereographic='af' GeneralVerticalNearSided='ag' ModifiedStereographicAlaska='am' ChamberlinTrimetric='an' PolarStereographic='ap' AzimuthalUnknown='au' AzimuthalOther='az' Gall='ba' GoodeHomolographic='bb' LambertCylindrical='bc' Mercator='bd' Miller='be' Mollweide='bf' Sinusoidal='bg' TransverseMercator='bh' GaussKruger='bi' Equirectangular='bj' Krovak='bk' CassiniSoldner='bl' ObliqueMercator='bo' Robinson='br' SpaceObliqueMercator='bs' CylindricalUnknown='bu' CylindricalOther='bz' AlbersEqualArea='ca' Bonne='cb' LambertConformalConic='cc' EquidistantConic='ce' Polyconic='cp' ConicUnknown='cu' ConicOther='cz' Armadillo='da' Butterfly='db' Eckert='dc' GoodeHomolosine='dd' MillerBipolarObliqueConformal='de' VanDerGrinten='df' Dimaxion='dg' Cordiform='dh' LambertConformal='dl' Other='zz' NotCoded='||'
Projection ==
  [name |-> "Projection", width |-> 2, default |-> "NotCoded", variants |-> {
      <<"NotSpecified", Pack(35, 35)>>, <<"Aitoff", Pack(97, 97)>>, <<"Gnomic", Pack(97, 98)>>,
      <<"LambertAzimuthal", Pack(97, 99)>>, <<"Orthographic", Pack(97, 100)>>,
      <<"AzimuthalEquidistant", Pack(97, 101)>>, <<"Stereographic", Pack(97, 102)>>,
      <<"GeneralVerticalNearSided", Pack(97, 103)>>,
      <<"ModifiedStereographicAlaska", Pack(97, 109)>>,
      <<"ChamberlinTrimetric", Pack(97, 110)>>, <<"PolarStereographic", Pack(97, 112)>>,
      <<"AzimuthalUnknown", Pack(97, 117)>>, <<"AzimuthalOther", Pack(97, 122)>>,
      <<"Gall", Pack(98, 97)>>, <<"GoodeHomolographic", Pack(98, 98)>>,
      <<"LambertCylindrical", Pack(98, 99)>>, <<"Mercator", Pack(98, 100)>>,
      <<"Miller", Pack(98, 101)>>, <<"Mollweide", Pack(98, 102)>>,
      <<"Sinusoidal", Pack(98, 103)>>, <<"TransverseMercator", Pack(98, 104)>>,
      <<"GaussKruger", Pack(98, 105)>>, <<"Equirectangular", Pack(98, 106)>>,
      <<"Krovak", Pack(98, 107)>>, <<"CassiniSoldner", Pack(98, 108)>>,
      <<"ObliqueMercator", Pack(98, 111)>>, <<"Robinson", Pack(98, 114)>>,
      <<"SpaceObliqueMercator", Pack(98, 115)>>, <<"CylindricalUnknown", Pack(98, 117)>>,
      <<"CylindricalOther", Pack(98, 122)>>, <<"AlbersEqualArea", Pack(99, 97)>>,
      <<"Bonne", Pack(99, 98)>>, <<"LambertConformalConic", Pack(99, 99)>>,
      <<"EquidistantConic", Pack(99, 101)>>, <<"Polyconic", Pack(99, 112)>>,
      <<"ConicUnknown", Pack(99, 117)>>, <<"ConicOther", Pack(99, 122)>>,
      <<"Armadillo", Pack(100, 97)>>, <<"Butterfly", Pack(100, 98)>>,
      <<"Eckert", Pack(100, 99)>>, <<"GoodeHomolosine", Pack(100, 100)>>,
      <<"MillerBipolarObliqueConformal", Pack(100, 101)>>, <<"VanDerGrinten", Pack(100, 102)>>,
      <<"Dimaxion", Pack(100, 103)>>, <<"Cordiform", Pack(100, 104)>>,
      <<"LambertConformal", Pack(100, 108)>>, <<"Other", Pack(122, 122)>>,
      <<"NotCoded", Pack(124, 124)>>}]

\* CartographicType (#[repr(u8)]): SingleMap='a' MapSeries='b' MapSerial='c' Globe='d' Atlas='e' Supplement='f' Part='g' Unknown='u' Other='z' NotCoded='|'
CartographicType ==
  [name |-> "CartographicType", width |-> 1, default |-> "NotCoded", variants |-> {
      <<"SingleMap", 97>>, <<"MapSeries", 98>>, <<"MapSerial", 99>>, <<"Globe", 100>>,
      <<"Atlas", 101>>, <<"Supplement", 102>>, <<"Part", 103>>, <<"Unknown", 117>>,
      <<"Other", 122>>, <<"NotCoded", 124>>}]

\* SpecialFormatCharacteristics (#[repr(u8)]): None='#' Manuscript='e' PictureCard='j' Calendar='k' Puzzle='l' Game='n' WallMap='o' PlayingCards='p' LooseLeaf='r' Other='z' NotCoded='|'
SpecialFormatCharacteristics ==
  [name |-> "SpecialFormatCharacteristics", width |-> 1, default |-> "NotCoded", variants |-> {
      <<"None", 35>>, <<"Manuscript", 101>>, <<"PictureCard", 106>>, <<"Calendar", 107>>,
      <<"Puzzle", 108>>, <<"Game", 110>>, <<"WallMap", 111>>, <<"PlayingCards", 112>>,
      <<"LooseLeaf", 114>>, <<"Other", 122>>, <<"NotCoded", 124>>}]

\* FormOfComposition (#[repr(u16)]): Anthems='an' Ballads='bd' Bluegrass='bg' Blues='bl' Ballet='bt' Chaconne='ca' Chant='cb' ChristianChant='cc' Concerti='cg' Chorale='ch' ChoralePrelude='cl' Canon='cn' Concerto='co' Chanson='cp' Carols='cr' Chance='cs' Cantata='ct' Country='cy' Canzona='cz' Dance='df' Divertimento='dv' Fugue='fg' Flamenco='fl' Folk='fm' Fantasia='ft' Gospel='gm' Hymn='hy' Jazz='jz' Musical='mc' Madrigal='md' Minuet='mi' Motet='mo' Motion='mp' March='mr' Mass='ms' Multiple='mu' Mazurka='mz' Nocturne='nc' NotApplicable='nn' Opera='op' Oratorio='or' Overture='ov' Program='pg' Passion='pm' Polonaise='po' Popular='pp' Prelude='pr' Passacaglia='ps' Part='pt' Pavan='pv' Rock='rc' Rondo='rd' Ragtime='rg' Ricercar='ri' Rhapsody='rp' Requiem='rq' Square='sd' Songs='sg' Sonata='sn' Symphonic='sp' Study='st' Suite='su' Symphony='sy' Toccata='tc' Teatro='tl' TrioSonata='ts' Unknown='uu' Villancico='vi' Variation='vr' Waltz='wz' Zarzuela='za' Other='zz' NotCoded='||'
FormOfComposition ==
  [name |-> "FormOfComposition", width |-> 2, default |-> "NotCoded", variants |-> {
      <<"Anthems", Pack(97, 110)>>, <<"Ballads", Pack(98, 100)>>,
      <<"Bluegrass", Pack(98, 103)>>, <<"Blues", Pack(98, 108)>>, <<"Ballet", Pack(98, 116)>>,
      <<"Chaconne", Pack(99, 97)>>, <<"Chant", Pack(99, 98)>>,
      <<"ChristianChant", Pack(99, 99)>>, <<"Concerti", Pack(99, 103)>>,
      <<"Chorale", Pack(99, 104)>>, <<"ChoralePrelude", Pack(99, 108)>>,
      <<"Canon", Pack(99, 110)>>, <<"Concerto", Pack(99, 111)>>, <<"Chanson", Pack(99, 112)>>,
      <<"Carols", Pack(99, 114)>>, <<"Chance", Pack(99, 115)>>, <<"Cantata", Pack(99, 116)>>,
      <<"Country", Pack(99, 121)>>, <<"Canzona", Pack(99, 122)>>, <<"Dance", Pack(100, 102)>>,
      <<"Divertimento", Pack(100, 118)>>, <<"Fugue", Pack(102, 103)>>,
      <<"Flamenco", Pack(102, 108)>>, <<"Folk", Pack(102, 109)>>,
      <<"Fantasia", Pack(102, 116)>>, <<"Gospel", Pack(103, 109)>>, <<"Hymn", Pack(104, 121)>>,
      <<"Jazz", Pack(106, 122)>>, <<"Musical", Pack(109, 99)>>, <<"Madrigal", Pack(109, 100)>>,
      <<"Minuet", Pack(109, 105)>>, <<"Motet", Pack(109, 111)>>, <<"Motion", Pack(109, 112)>>,
      <<"March", Pack(109, 114)>>, <<"Mass", Pack(109, 115)>>, <<"Multiple", Pack(109, 117)>>,
      <<"Mazurka", Pack(109, 122)>>, <<"Nocturne", Pack(110, 99)>>,
      <<"NotApplicable", Pack(110, 110)>>, <<"Opera", Pack(111, 112)>>,
      <<"Oratorio", Pack(111, 114)>>, <<"Overture", Pack(111, 118)>>,
      <<"Program", Pack(112, 103)>>, <<"Passion", Pack(112, 109)>>,
      <<"Polonaise", Pack(112, 111)>>, <<"Popular", Pack(112, 112)>>,
      <<"Prelude", Pack(112, 114)>>, <<"Passacaglia", Pack(112, 115)>>,
      <<"Part", Pack(112, 116)>>, <<"Pavan", Pack(112, 118)>>, <<"Rock", Pack(114, 99)>>,
      <<"Rondo", Pack(114, 100)>>, <<"Ragtime", Pack(114, 103)>>,
      <<"Ricercar", Pack(114, 105)>>, <<"Rhapsody", Pack(114, 112)>>,
      <<"Requiem", Pack(114, 113)>>, <<"Square", Pack(115, 100)>>, <<"Songs", Pack(115, 103)>>,
      <<"Sonata", Pack(115, 110)>>, <<"Symphonic", Pack(115, 112)>>,
      <<"Study", Pack(115, 116)>>, <<"Suite", Pack(115, 117)>>, <<"Symphony", Pack(115, 121)>>,
      <<"Toccata", Pack(116, 99)>>, <<"Teatro", Pack(116, 108)>>,
      <<"TrioSonata", Pack(116, 115)>>, <<"Unknown", Pack(117, 117)>>,
      <<"Villancico", Pack(118, 105)>>, <<"Variation", Pack(118, 114)>>,
      <<"Waltz", Pack(119, 122)>>, <<"Zarzuela", Pack(122, 97)>>, <<"Other", Pack(122, 122)>>,
      <<"NotCoded", Pack(124, 124)>>}]

\* FormatOfMusic (#[repr(u8)]): Full='a' Miniature='b' Accompaniment='c' Voice='d' CondensedOrConductor='e' Close='g' Chorus='h' Condensed='i' Performer='j' Vocal='k' Score='l' Multiple='m' Not='n' Piano='p' Unknown='u' Other='z' NotCoded='|'
FormatOfMusic ==
  [name |-> "FormatOfMusic", width |-> 1, default |-> "NotCoded", variants |-> {
      <<"Full", 97>>, <<"Miniature", 98>>, <<"Accompaniment", 99>>, <<"Voice", 100>>,
      <<"CondensedOrConductor", 101>>, <<"Close", 103>>, <<"Chorus", 104>>,
      <<"Condensed", 105>>, <<"Performer", 106>>, <<"Vocal", 107>>, <<"Score", 108>>,
      <<"Multiple", 109>>, <<"Not", 110>>, <<"Piano", 112>>, <<"Unknown", 117>>,
      <<"Other", 122>>, <<"NotCoded", 124>>}]

\* MusicParts (#[repr(u8)]): None='#' InstrumentalAndVocal='d' Instrumental='e' Vocal='f' Not='n' Unknown='u' NotCoded='|'
MusicParts ==
  [name |-> "MusicParts", width |-> 1, default |-> "NotCoded", variants |-> {
      <<"None", 35>>, <<"InstrumentalAndVocal", 100>>, <<"Instrumental", 101>>,
      <<"Vocal", 102>>, <<"Not", 110>>, <<"Unknown", 117>>, <<"NotCoded", 124>>}]

\* AccompanyingMatter (#[repr(u8)]): None='#' Discography='a' Bibliography='b' Thematic='c' Libretto='d' BiographyComposer='e' BiographyPerformer='f' TechnicalInstruments='g' TechnicalMusic='h' Historical='i' Ethnological='k' Instructional='r' Music='s' Other='z' NotCoded='|'
AccompanyingMatter ==
  [name |-> "AccompanyingMatter", width |-> 1, default |-> "NotCoded", variants |-> {
      <<"None", 35>>, <<"Discography", 97>>, <<"Bibliography", 98>>, <<"Thematic", 99>>,
      <<"Libretto", 100>>, <<"BiographyComposer", 101>>, <<"BiographyPerformer", 102>>,
      <<"TechnicalInstruments", 103>>, <<"TechnicalMusic", 104>>, <<"Historical", 105>>,
      <<"Ethnological", 107>>, <<"Instructional", 114>>, <<"Music", 115>>, <<"Other", 122>>,
      <<"NotCoded", 124>>}]

\* MusicText (#[repr(u8)]): Music='#' Autobiography='a' Biography='b' Conference='c' Drama='d' Essays='e' Fiction='f' Reporting='g' History='h' Instruction='i' Language='j' Comedy='k' Lectures='l' Memoirs='m' Not='n' Folktales='o' Poetry='p' Rehearsals='r' Sounds='s' Interviews='t' Other='z' NotCoded='|'
MusicText ==
  [name |-> "MusicText", width |-> 1, default |-> "NotCoded", variants |-> {
      <<"Music", 35>>, <<"Autobiography", 97>>, <<"Biography", 98>>, <<"Conference", 99>>,
      <<"Drama", 100>>, <<"Essays", 101>>, <<"Fiction", 102>>, <<"Reporting", 103>>,
      <<"History", 104>>, <<"Instruction", 105>>, <<"Language", 106>>, <<"Comedy", 107>>,
      <<"Lectures", 108>>, <<"Memoirs", 109>>, <<"Not", 110>>, <<"Folktales", 111>>,
      <<"Poetry", 112>>, <<"Rehearsals", 114>>, <<"Sounds", 115>>, <<"Interviews", 116>>,
      <<"Other", 122>>, <<"NotCoded", 124>>}]

\* TranspositionArrangement (#[repr(u8)]): None='#' Transposition='a' Arrangement='b' Both='c' NotApplicable='n' Unknown='u' NotCoded='|'
TranspositionArrangement ==
  [name |-> "TranspositionArrangement", width |-> 1, default |-> "NotCoded", variants |-> {
      <<"None", 35>>, <<"Transposition", 97>>, <<"Arrangement", 98>>, <<"Both", 99>>,
      <<"NotApplicable", 110>>, <<"Unknown", 117>>, <<"NotCoded", 124>>}]

\* Frequency (#[repr(u8)]): None='#' Annual='a' Bimonthly='b' Semiweekly='c' Daily='d' Biweekly='e' Semiannual='f' Biennial='g' Triennial='h' ThreeWeekly='i' ThreeMonthly='j' Continuously='k' Monthly='m' Quarterly='q' Semimonthly='s' Three='t' Unknown='u' Weekly='w' Other='z' NotCoded='|'
Frequency ==
  [name |-> "Frequency", width |-> 1, default |-> "NotCoded", variants |-> {
      <<"None", 35>>, <<"Annual", 97>>, <<"Bimonthly", 98>>, <<"Semiweekly", 99>>,
      <<"Daily", 100>>, <<"Biweekly", 101>>, <<"Semiannual", 102>>, <<"Biennial", 103>>,
      <<"Triennial", 104>>, <<"ThreeWeekly", 105>>, <<"ThreeMonthly", 106>>,
      <<"Continuously", 107>>, <<"Monthly", 109>>, <<"Quarterly", 113>>,
      <<"Semimonthly", 115>>, <<"Three", 116>>, <<"Unknown", 117>>, <<"Weekly", 119>>,
      <<"Other", 122>>, <<"NotCoded", 124>>}]

\* Regularity (#[repr(u8)]): Normalized='n' Regular='r' Unknown='u' Completely='x' NotCoded='|'
Regularity ==
  [name |-> "Regularity", width |-> 1, default |-> "NotCoded", variants |-> {
      <<"Normalized", 110>>, <<"Regular", 114>>, <<"Unknown", 117>>, <<"Completely", 120>>,
      <<"NotCoded", 124>>}]

\* PublicationType (#[repr(u8)]): None='#' UpdatingDatabase='d' Magazine='g' Blog='h' Journal='j' UpdatingLooseLeaf='l' Monographic='m' Newspaper='n' Periodical='p' Repository='r' Newsletter='s' Directory='t' UpdatingWeb='w' NotCoded='|'
PublicationType ==
  [name |-> "PublicationType", width |-> 1, default |-> "NotCoded", variants |-> {
      <<"None", 35>>, <<"UpdatingDatabase", 100>>, <<"Magazine", 103>>, <<"Blog", 104>>,
      <<"Journal", 106>>, <<"UpdatingLooseLeaf", 108>>, <<"Monographic", 109>>,
      <<"Newspaper", 110>>, <<"Periodical", 112>>, <<"Repository", 114>>,
      <<"Newsletter", 115>>, <<"Directory", 116>>, <<"UpdatingWeb", 119>>, <<"NotCoded", 124>>}]

\* AlphabetScript (#[repr(u8)]): None='#' BasicRoman='a' ExtendedRoman='b' Cyrillic='c' Japanese='d' Chinese='e' Arabic='f' Greek='g' Hebrew='h' Thai='i' Devanagari='j' Korean='k' Tamil='l' Unknown='u' Other='z' NotCoded='|'
AlphabetScript ==
  [name |-> "AlphabetScript", width |-> 1, default |-> "NotCoded", variants |-> {
      <<"None", 35>>, <<"BasicRoman", 97>>, <<"ExtendedRoman", 98>>, <<"Cyrillic", 99>>,
      <<"Japanese", 100>>, <<"Chinese", 101>>, <<"Arabic", 102>>, <<"Greek", 103>>,
      <<"Hebrew", 104>>, <<"Thai", 105>>, <<"Devanagari", 106>>, <<"Korean", 107>>,
      <<"Tamil", 108>>, <<"Unknown", 117>>, <<"Other", 122>>, <<"NotCoded", 124>>}]

\* EntryConvention (#[repr(u8)]): Successive='0' Latest='1' Integrated='2' NotCoded='|'
EntryConvention ==
  [name |-> "EntryConvention", width |-> 1, default |-> "NotCoded", variants |-> {
      <<"Successive", 48>>, <<"Latest", 49>>, <<"Integrated", 50>>, <<"NotCoded", 124>>}]

Tables ==
  {Illustration, TargetAudience, FormOfItem, NatureOfContents, GovernmentPublication,
   ConferencePublication, Festschrift, Index, LiteraryForm, Biography, FileType, Relief,
   Projection, CartographicType, SpecialFormatCharacteristics, FormOfComposition,
   FormatOfMusic, MusicParts, AccompanyingMatter, MusicText, TranspositionArrangement,
   Frequency, Regularity, PublicationType, AlphabetScript, EntryConvention}

Keys(T) == IF T.width = 1 THEN U8 ELSE U16
Variants(T) == {e[1] : e \in T.variants}
Codes(T) == {e[2] : e \in T.variants}

\* num_enum's derived FromPrimitive::from_primitive: a match on the
\* discriminants, with the #[default] variant for every other number.
\* (no #[default]: the catch-all is the variant of least discriminant)
from_primitive_first(T, n) ==
  IF \E e \in T.variants : e[2] = n
  THEN (CHOOSE e \in T.variants : e[2] = n)[1]
  ELSE (CHOOSE e \in T.variants : \A d \in T.variants : e[2] <= d[2])[1]
from_primitive(T, n) ==
  IF \E e \in T.variants : e[2] = n
  THEN (CHOOSE e \in T.variants : e[2] = n)[1]
  ELSE T.default

\* num_enum's derived IntoPrimitive: `variant as u8` / `variant as u16`.
\* (a cast to u8 whatever the repr)
into_primitive_u8(T, v) == (CHOOSE e \in T.variants : e[1] = v)[2] % 256
into_primitive(T, v) == (CHOOSE e \in T.variants : e[1] = v)[2]

\* The canonical key of the table's fallback variant, and its bytes.
FallbackKey(T) == into_primitive(T, T.default)

TableOf(n) == CHOOSE T \in Tables : T.name = n

\* The bytes a code may be written with: lowercase letters, digits, '#', '|'.
Blank == 35
NoAttempt == 124
CodeAlphabet == (97..122) \cup (48..57) \cup {Blank, NoAttempt}

\* The fillers '#' and '|' as keys of the table's width.
BlankKey(T) == IF T.width = 1 THEN Blank ELSE Pack(Blank, Blank)
NoAttemptKey(T) == IF T.width = 1 THEN NoAttempt ELSE Pack(NoAttempt, NoAttempt)

\* ------------------------------------------------------------------------
\* Calls on the code tables.  The tables are immutable and no call keeps
\* anything: a state records the call in progress and its result, and the
\* caller is idle between calls.

\* T::from_primitive(n) for any table and any number of its repr.
FromPrimitive ==
  /\ op = "idle"
  /\ \E T \in Tables : \E n \in Keys(T) :
       /\ op' = "from_primitive"
       /\ table' = T.name
       /\ key' = n
       /\ variant' = from_primitive(T, n)
       /\ pair' = <<HighByte(n), LowByte(n)>>
       /\ UNCHANGED cvars

\* n = v.into() for any table and any of its variants.
IntoPrimitive ==
  /\ op = "idle"
  /\ \E T \in Tables : \E v \in Variants(T) :
       /\ op' = "into"
       /\ table' = T.name
       /\ variant' = v
       /\ key' = into_primitive(T, v)
       /\ pair' = <<HighByte(into_primitive(T, v)), LowByte(into_primitive(T, v))>>
       /\ UNCHANGED cvars

\* The packing of an ordered pair of code bytes into a u16 key.
PackPair ==
  /\ op = "idle"
  /\ \E h \in CodeAlphabet : \E l \in CodeAlphabet :
       /\ op' = "pack"
       /\ pair' = <<h, l>>
       /\ key' = Pack(h, l)
       /\ UNCHANGED <<table, variant>>
       /\ UNCHANGED cvars

\* ------------------------------------------------------------------------
\* The record type AdditionalMaterialCharacteristics.

MaterialKinds ==
  {"Book", "ComputerFile", "Map", "MixedMaterials", "Music", "ContinuingResources"}

\* The fields of each arm with their types: count = 0 for a field of type T
\* (or bool), count = n for a field of type [T; n].
BookShape ==
  {[field |-> "manuscript", type |-> "bool", count |-> 0],
   [field |-> "illustrations", type |-> "Illustration", count |-> 4],
   [field |-> "target_audience", type |-> "TargetAudience", count |-> 0],
   [field |-> "form_of_item", type |-> "FormOfItem", count |-> 0],
   [field |-> "nature_of_contents", type |-> "NatureOfContents", count |-> 4],
   [field |-> "government_publication", type |-> "GovernmentPublication", count |-> 0],
   [field |-> "conference_publication", type |-> "ConferencePublication", count |-> 0],
   [field |-> "festschrift", type |-> "Festschrift", count |-> 0],
   [field |-> "index", type |-> "Index", count |-> 0],
   [field |-> "literary_form", type |-> "LiteraryForm", count |-> 0],
   [field |-> "biography", type |-> "Biography", count |-> 0]}

ComputerFileShape ==
  {[field |-> "target_audience", type |-> "TargetAudience", count |-> 0],
   [field |-> "form_of_item", type |-> "FormOfItem", count |-> 0],
   [field |-> "file_type", type |-> "FileType", count |-> 0],
   [field |-> "government_publication", type |-> "GovernmentPublication", count |-> 0]}

MapShape ==
  {[field |-> "manuscript", type |-> "bool", count |-> 0],
   [field |-> "relief", type |-> "Relief", count |-> 4],
   [field |-> "projection", type |-> "Projection", count |-> 0],
   [field |-> "cartographic_type", type |-> "CartographicType", count |-> 0],
   [field |-> "government_publication", type |-> "GovernmentPublication", count |-> 0],
   [field |-> "form_of_item", type |-> "FormOfItem", count |-> 0],
   [field |-> "index", type |-> "Index", count |-> 0],
   [field |-> "special_format_characteristics", type |-> "SpecialFormatCharacteristics", count |-> 2]}

MixedMaterialsShape ==
  {[field |-> "form_of_item", type |-> "FormOfItem", count |-> 0]}

MusicShape ==
  {[field |-> "recorded", type |-> "bool", count |-> 0],
   [field |-> "manuscript", type |-> "bool", count |-> 0],
   [field |-> "musical", type |-> "bool", count |-> 0],
   [field |-> "form_of_composition", type |-> "FormOfComposition", count |-> 0],
   [field |-> "format_of_music", type |-> "FormatOfMusic", count |-> 0],
   [field |-> "parts", type |-> "MusicParts", count |-> 0],
   [field |-> "target_audience", type |-> "TargetAudience", count |-> 0],
   [field |-> "form_of_item", type |-> "FormOfItem", count |-> 0],
   [field |-> "accompanying_matter", type |-> "AccompanyingMatter", count |-> 6],
   [field |-> "literary_text", type |-> "MusicText", count |-> 2],
   [field |-> "transposition_and_arrangement", type |-> "TranspositionArrangement", count |-> 0]}

ContinuingResourcesShape ==
  {[field |-> "frequency", type |-> "Frequency", count |-> 0],
   [field |-> "regularity", type |-> "Regularity", count |-> 0],
   [field |-> "form_of_original", type |-> "FormOfItem", count |-> 0],
   [field |-> "form_of_current", type |-> "FormOfItem", count |-> 0],
   [field |-> "nature_of_work", type |-> "NatureOfContents", count |-> 0],
   [field |-> "nature_of_content", type |-> "NatureOfContents", count |-> 3],
   [field |-> "government_publication", type |-> "GovernmentPublication", count |-> 0],
   [field |-> "conference_publication", type |-> "ConferencePublication", count |-> 0],
   [field |-> "original_alphabet_or_script", type |-> "AlphabetScript", count |-> 0]}

Shape(k) ==
  CASE k = "Book" -> BookShape
    [] k = "ComputerFile" -> ComputerFileShape
    [] k = "Map" -> MapShape
    [] k = "MixedMaterials" -> MixedMaterialsShape
    [] k = "Music" -> MusicShape
    [] k = "ContinuingResources" -> ContinuingResourcesShape

\* The positions the doc comments bind to each field ("Position 5." is
\* first = last = 5, "Positions 1-4." is first = 1, last = 4).  Book's
\* biography is given no position.
\* (illustrations bound to positions 1-3)
BookLayoutShort ==
  {[field |-> "manuscript", first |-> 0, last |-> 0],
   [field |-> "illustrations", first |-> 1, last |-> 3],
   [field |-> "target_audience", first |-> 5, last |-> 5],
   [field |-> "form_of_item", first |-> 6, last |-> 6],
   [field |-> "nature_of_contents", first |-> 7, last |-> 10],
   [field |-> "government_publication", first |-> 11, last |-> 11],
   [field |-> "conference_publication", first |-> 12, last |-> 12],
   [field |-> "festschrift", first |-> 13, last |-> 13],
   [field |-> "index", first |-> 14, last |-> 14],
   [field |-> "literary_form", first |-> 16, last |-> 16]}

BookLayout ==
  {[field |-> "manuscript", first |-> 0, last |-> 0],
   [field |-> "illustrations", first |-> 1, last |-> 4],
   [field |-> "target_audience", first |-> 5, last |-> 5],
   [field |-> "form_of_item", first |-> 6, last |-> 6],
   [field |-> "nature_of_contents", first |-> 7, last |-> 10],
   [field |-> "government_publication", first |-> 11, last |-> 11],
   [field |-> "conference_publication", first |-> 12, last |-> 12],
   [field |-> "festschrift", first |-> 13, last |-> 13],
   [field |-> "index", first |-> 14, last |-> 14],
   [field |-> "literary_form", first |-> 16, last |-> 16]}

ComputerFileLayout ==
  {[field |-> "target_audience", first |-> 5, last |-> 5],
   [field |-> "form_of_item", first |-> 6, last |-> 6],
   [field |-> "file_type", first |-> 9, last |-> 9],
   [field |-> "government_publication", first |-> 11, last |-> 11]}

\* (special_format_characteristics bound to positions 17-18)
MapLayoutShifted ==
  {[field |-> "manuscript", first |-> 0, last |-> 0],
   [field |-> "relief", first |-> 1, last |-> 4],
   [field |-> "projection", first |-> 5, last |-> 6],
   [field |-> "cartographic_type", first |-> 8, last |-> 8],
   [field |-> "government_publication", first |-> 11, last |-> 11],
   [field |-> "form_of_item", first |-> 12, last |-> 12],
   [field |-> "index", first |-> 14, last |-> 14],
   [field |-> "special_format_characteristics", first |-> 17, last |-> 18]}

MapLayout ==
  {[field |-> "manuscript", first |-> 0, last |-> 0],
   [field |-> "relief", first |-> 1, last |-> 4],
   [field |-> "projection", first |-> 5, last |-> 6],
   [field |-> "cartographic_type", first |-> 8, last |-> 8],
   [field |-> "government_publication", first |-> 11, last |-> 11],
   [field |-> "form_of_item", first |-> 12, last |-> 12],
   [field |-> "index", first |-> 14, last |-> 14],
   [field |-> "special_format_characteristics", first |-> 16, last |-> 17]}

\* (form_of_item bound to position 5)
MixedMaterialsLayoutShifted ==
  {[field |-> "form_of_item", first |-> 5, last |-> 5]}
MixedMaterialsLayout ==
  {[field |-> "form_of_item", first |-> 6, last |-> 6]}

MusicLayout ==
  {[field |-> "recorded", first |-> 0, last |-> 0],
   [field |-> "manuscript", first |-> 0, last |-> 0],
   [field |-> "musical", first |-> 0, last |-> 0],
   [field |-> "form_of_composition", first |-> 1, last |-> 2],
   [field |-> "format_of_music", first |-> 3, last |-> 3],
   [field |-> "parts", first |-> 4, last |-> 4],
   [field |-> "target_audience", first |-> 5, last |-> 5],
   [field |-> "form_of_item", first |-> 6, last |-> 6],
   [field |-> "accompanying_matter", first |-> 7, last |-> 12],
   [field |-> "literary_text", first |-> 13, last |-> 14],
   [field |-> "transposition_and_arrangement", first |-> 16, last |-> 16]}

\* (nature_of_content bound to positions 7-9, nature_of_work to 10)
ContinuingResourcesLayoutSwapped ==
  {[field |-> "frequency", first |-> 1, last |-> 1],
   [field |-> "regularity", first |-> 2, last |-> 2],
   [field |-> "form_of_original", first |-> 5, last |-> 5],
   [field |-> "form_of_current", first |-> 6, last |-> 6],
   [field |-> "nature_of_work", first |-> 10, last |-> 10],
   [field |-> "nature_of_content", first |-> 7, last |-> 9],
   [field |-> "government_publication", first |-> 11, last |-> 11],
   [field |-> "conference_publication", first |-> 12, last |-> 12],
   [field |-> "original_alphabet_or_script", first |-> 16, last |-> 16]}
ContinuingResourcesLayout ==
  {[field |-> "frequency", first |-> 1, last |-> 1],
   [field |-> "regularity", first |-> 2, last |-> 2],
   [field |-> "form_of_original", first |-> 5, last |-> 5],
   [field |-> "form_of_current", first |-> 6, last |-> 6],
   [field |-> "nature_of_work", first |-> 7, last |-> 7],
   [field |-> "nature_of_content", first |-> 8, last |-> 10],
   [field |-> "government_publication", first |-> 11, last |-> 11],
   [field |-> "conference_publication", first |-> 12, last |-> 12],
   [field |-> "original_alphabet_or_script", first |-> 16, last |-> 16]}

Layout(k) ==
  CASE k = "Book" -> BookLayout
    [] k = "ComputerFile" -> ComputerFileLayout
    [] k = "Map" -> MapLayout
    [] k = "MixedMaterials" -> MixedMaterialsLayout
    [] k = "Music" -> MusicLayout
    [] k = "ContinuingResources" -> ContinuingResourcesLayout
\* The fields of each arm in the order of their declaration.
DeclaredOrder(k) ==
  CASE k = "Book" ->
         <<"manuscript", "illustrations", "target_audience", "form_of_item",
           "nature_of_contents", "government_publication", "conference_publication",
           "festschrift", "index", "literary_form", "biography">>
    [] k = "ComputerFile" ->
         <<"target_audience", "form_of_item", "file_type", "government_publication">>
    [] k = "Map" ->
         <<"manuscript", "relief", "projection", "cartographic_type",
           "government_publication", "form_of_item", "index",
           "special_format_characteristics">>
    [] k = "MixedMaterials" -> <<"form_of_item">>
    [] k = "Music" ->
         <<"recorded", "manuscript", "musical", "form_of_composition", "format_of_music",
           "parts", "target_audience", "form_of_item", "accompanying_matter",
           "literary_text", "transposition_and_arrangement">>
    [] k = "ContinuingResources" ->
         <<"frequency", "regularity", "form_of_original", "form_of_current",
           "nature_of_work", "nature_of_content", "government_publication",
           "conference_publication", "original_alphabet_or_script">>

\* The position-0 booleans, as the doc comments give them:
\* Book "a = false, t = true"; Map "e = false, f = true"; Music recorded
\* "i+j = false, c+d = true", manuscript "d = true, otherwise false",
\* musical "i = false, otherwise true".
\* (Book's a and t exchanged)
Position0BookSwapped(k, n, b) ==
  CASE k = "Book" /\ n = "manuscript" -> b = 97
    [] k = "Map" /\ n = "manuscript" -> b = 102
    [] k = "Music" /\ n = "recorded" -> b \in {99, 100}
    [] k = "Music" /\ n = "manuscript" -> b = 100
    [] k = "Music" /\ n = "musical" -> b # 105
    [] OTHER -> FALSE
\* (Music's manuscript true of c as well as d)
Position0NotatedManuscript(k, n, b) ==
  CASE k = "Book" /\ n = "manuscript" -> b = 116
    [] k = "Map" /\ n = "manuscript" -> b = 102
    [] k = "Music" /\ n = "recorded" -> b \in {99, 100}
    [] k = "Music" /\ n = "manuscript" -> b \in {99, 100}
    [] k = "Music" /\ n = "musical" -> b # 105
    [] OTHER -> FALSE
\* (Music's musical true of j only)
Position0MusicalOnlyJ(k, n, b) ==
  CASE k = "Book" /\ n = "manuscript" -> b = 116
    [] k = "Map" /\ n = "manuscript" -> b = 102
    [] k = "Music" /\ n = "recorded" -> b \in {99, 100}
    [] k = "Music" /\ n = "manuscript" -> b = 100
    [] k = "Music" /\ n = "musical" -> b = 106
    [] OTHER -> FALSE
Position0(k, n, b) ==
  CASE k = "Book" /\ n = "manuscript" -> b = 116
    [] k = "Map" /\ n = "manuscript" -> b = 102
    [] k = "Music" /\ n = "recorded" -> b \in {99, 100}
    [] k = "Music" /\ n = "manuscript" -> b = 100
    [] k = "Music" /\ n = "musical" -> b # 105
    [] OTHER -> FALSE

\* The width of field 006: positions 0..17.
FieldWidth == 18

FieldNames(k) == {s.field : s \in Shape(k)}
ShapeOf(k, n) == CHOOSE s \in Shape(k) : s.field = n
IsBound(k, n) == \E e \in Layout(k) : e.field = n
EntryOf(k, n) == CHOOSE e \in Layout(k) : e.field = n

\* ------------------------------------------------------------------------
\* The positional codec: decode(kind, field) and encode(record).

\* Byte j (0 = first) of the canonical key of T's fallback variant.
FallbackByte(T, j) ==
  IF T.width = 1 THEN FallbackKey(T)
  ELSE IF j = 0 THEN HighByte(FallbackKey(T)) ELSE LowByte(FallbackKey(T))

\* The byte of the field at position p (0-based); a position the field does
\* not reach reads as the fallback byte of the table bound to it.
ByteAt(f, p, T, j) == IF p < Len(f) THEN f[p + 1] ELSE FallbackByte(T, j)

\* The key of the slice of T.width bytes starting at position o.
Slice(f, o, T) ==
  IF T.width = 1 THEN ByteAt(f, o, T, 0)
  ELSE Pack(ByteAt(f, o, T, 0), ByteAt(f, o + 1, T, 1))

\* The number of slices of T the positions of entry e hold.
Repeat(e, T) == (e.last - e.first + 1) \div T.width

\* The value of field n of the record decoded from f.
DecodeField(k, n, f) ==
  LET s == ShapeOf(k, n) IN
  IF s.type = "bool"
  THEN IsBound(k, n) /\ Position0(k, n, IF Len(f) > 0 THEN f[1] ELSE NoAttempt)
  ELSE LET T == TableOf(s.type) IN
       IF ~IsBound(k, n)
       THEN IF s.count = 0 THEN T.default ELSE [i \in 1..s.count |-> T.default]
       ELSE LET e == EntryOf(k, n) IN
            IF s.count = 0
            THEN from_primitive(T, Slice(f, e.first, T))
            ELSE [i \in 1..Repeat(e, T) |->
                    from_primitive(T, Slice(f, e.first + (i - 1) * T.width, T))]

\* decode(kind, field): the record of arm k, every field populated.
Decode(k, f) ==
  [kind |-> k, fields |-> [n \in FieldNames(k) |-> DecodeField(k, n, f)]]

\* The position-0 byte of a record: the inverse of Position0, the fallback
\* byte when the booleans are no listed combination or the arm has none.
Position0Byte(r) ==
  LET k == r.kind
      v == r.fields
  IN CASE k = "Book" -> IF v["manuscript"] THEN 116 ELSE 97
       [] k = "Map" -> IF v["manuscript"] THEN 102 ELSE 101
       [] k = "Music" ->
            IF v["recorded"] /\ ~v["manuscript"] /\ v["musical"] THEN 99
            ELSE IF v["recorded"] /\ v["manuscript"] /\ v["musical"] THEN 100
            ELSE IF ~v["recorded"] /\ ~v["manuscript"] /\ ~v["musical"] THEN 105
            ELSE IF ~v["recorded"] /\ ~v["manuscript"] /\ v["musical"] THEN 106
            ELSE NoAttempt
       [] OTHER -> NoAttempt

\* The layout entries of table-typed fields that cover position p.
Covering(k, p) ==
  {e \in Layout(k) : ShapeOf(k, e.field).type # "bool" /\ e.first <= p /\ p <= e.last}

\* The byte encode writes at position p.
EncodeByte(r, p) ==
  LET k == r.kind IN
  IF p = 0 /\ \E e \in Layout(k) : ShapeOf(k, e.field).type = "bool"
  THEN Position0Byte(r)
  ELSE IF Covering(k, p) = {}
  THEN NoAttempt
  ELSE LET e == CHOOSE c \in Covering(k, p) : TRUE
           s == ShapeOf(k, e.field)
           T == TableOf(s.type)
           i == (p - e.first) \div T.width
           j == (p - e.first) % T.width
           v == IF s.count = 0 THEN r.fields[e.field] ELSE r.fields[e.field][i + 1]
           c == into_primitive(T, v)
       IN IF T.width = 1 THEN c ELSE IF j = 0 THEN HighByte(c) ELSE LowByte(c)

\* encode(record): the field of FieldWidth bytes.
\* (nothing written after the last bound position)
EncodeToLastBound(r) ==
  LET top == CHOOSE p \in 0..(FieldWidth - 1) :
               /\ \E e \in Layout(r.kind) : e.last = p
               /\ \A e \in Layout(r.kind) : e.last <= p
  IN [p \in 1..(top + 1) |-> EncodeByte(r, p - 1)]
\* (nothing written at position 0 for booleans that are no listed combination)
EncodeDropUnlisted(r) ==
  IF r.kind = "Music" /\ Position0Byte(r) = NoAttempt
  THEN [p \in 1..(FieldWidth - 1) |-> EncodeByte(r, p)]
  ELSE [p \in 1..FieldWidth |-> EncodeByte(r, p - 1)]
Encode(r) == [p \in 1..FieldWidth |-> EncodeByte(r, p - 1)]

\* ------------------------------------------------------------------------
\* Inputs.

\* The longest field given to decode.
MaxLen == 19

\* Bytes of every kind a position can hold: the fillers '#' and '|', codes
\* most tables list ('a', 'd'), a digit no table of field 006 lists ('9'),
\* and a position-0 code ('t').
SampleBytes == {Blank, NoAttempt, 97, 100, 116, 57}
Fillers == {Blank, NoAttempt}

\* A field of n bytes g, but for the bytes b1, b2 at positions p, p + 1.
FieldOf(g, p, b1, b2, n) ==
  [i \in 1..n |-> IF i = p + 1 THEN b1 ELSE IF i = p + 2 THEN b2 ELSE g]

\* The well-typed values of a field of shape s.
DefaultValue(s) ==
  IF s.type = "bool" THEN FALSE
  ELSE IF s.count = 0 THEN TableOf(s.type).default
  ELSE [i \in 1..s.count |-> TableOf(s.type).default]

\* The record of arm k with booleans bs (a set of field names: the true
\* ones), every other field the fallback but for element i of field n,
\* which is v.
RecordOf(k, bs, n, i, v) ==
  [kind |-> k,
   fields |-> [m \in FieldNames(k) |->
     LET s == ShapeOf(k, m) IN
     IF s.type = "bool" THEN m \in bs
     ELSE IF m # n THEN DefaultValue(s)
     ELSE IF s.count = 0 THEN v
     ELSE [x \in 1..s.count |-> IF x = i THEN v ELSE TableOf(s.type).default]]]

\* The number of values a field of shape s holds.
ElementCount(s) == IF s.count = 0 THEN 1 ELSE s.count

BoolFields(k) == {s.field : s \in {t \in Shape(k) : t.type = "bool"}}
TableFields(k) == {s.field : s \in {t \in Shape(k) : t.type # "bool"}}

\* ------------------------------------------------------------------------
\* Calls on the codec.

\* The fields of at most MaxLen bytes that differ from a run of one filler
\* in at most two adjacent bytes.
SampledFields ==
  {FieldOf(g, p, b1, b2, n) :
     g \in Fillers, p \in 0..(MaxLen - 1), b1 \in SampleBytes, b2 \in SampleBytes,
     n \in 0..MaxLen}

\* The Book field "a####j######00000#0".
BookScenario ==
  <<97, 35, 35, 35, 35, 106, 35, 35, 35, 35, 35, 35, 48, 48, 48, 48, 48, 35, 48>>

\* A Map field whose projection slice is "ea": "ae" is listed, "ea" is not.
SwappedPairScenario == <<124, 124, 124, 124, 124, 101, 97>>

\* The fields of one byte, for every byte position 0 can hold.
OneByteFields == {<<b>> : b \in U8}

ScenarioFields == {BookScenario, SwappedPairScenario} \cup OneByteFields

\* record = decode(k, f)
DecodeCall ==
  /\ op = "idle"
  /\ \E k \in MaterialKinds : \E f \in SampledFields \cup ScenarioFields :
       /\ op' = "decode"
       /\ kind' = k
       /\ field' = f
       /\ record' = Decode(k, f)
       /\ output' = <<>>
       /\ UNCHANGED <<table, key, variant, pair>>

\* output = encode(record) of the record a decode returned.
EncodeDecoded ==
  /\ op = "decode"
  /\ op' = "reencode"
  /\ output' = Encode(record)
  /\ UNCHANGED <<kind, field, record>>
  /\ UNCHANGED <<table, key, variant, pair>>

\* output = encode(r) of any well-typed record r.
EncodeCall ==
  /\ op = "idle"
  /\ \E k \in MaterialKinds : \E bs \in SUBSET BoolFields(k) : \E n \in TableFields(k) :
     \E i \in 1..ElementCount(ShapeOf(k, n)) : \E v \in Variants(TableOf(ShapeOf(k, n).type)) :
       /\ op' = "encode"
       /\ kind' = k
       /\ field' = <<>>
       /\ record' = RecordOf(k, bs, n, i, v)
       /\ output' = Encode(RecordOf(k, bs, n, i, v))
       /\ UNCHANGED <<table, key, variant, pair>>

\* ------------------------------------------------------------------------
\* Specifications.

Init ==
  /\ op = "idle"
  /\ table = "Illustration"
  /\ key = NoAttempt
  /\ variant = "NotCoded"
  /\ pair = <<0, NoAttempt>>
  /\ kind = "Book"
  /\ field = <<>>
  /\ record = Decode("Book", <<>>)
  /\ output = <<>>

\* The call returns: nothing of it is kept.
Return ==
  /\ op # "idle"
  /\ op' = "idle"
  /\ table' = "Illustration"
  /\ key' = NoAttempt
  /\ variant' = "NotCoded"
  /\ pair' = <<0, NoAttempt>>
  /\ kind' = "Book"
  /\ field' = <<>>
  /\ record' = Decode("Book", <<>>)
  /\ output' = <<>>

\* The code tables alone.
TableNext == FromPrimitive \/ IntoPrimitive \/ PackPair \/ Return
TableSpec == Init /\ [][TableNext]_vars

\* The codec over the tables.
Next == DecodeCall \/ EncodeDecoded \/ EncodeCall \/ Return
Spec == Init /\ [][Next]_vars


\* ------------------------------------------------------------------------
\* Properties of the code tables (checked under TableSpec).

\* C1: from_primitive is total: for every table and every number of its
\* repr the result is a variant of the table, and for a number that is no
\* variant's discriminant it is the table's #[default] variant, NotCoded.
DecodeTotalWithFallback ==
  op = "from_primitive" =>
    LET T == TableOf(table) IN
    /\ key \in Keys(T)
    /\ variant \in Variants(T)
    /\ key \notin Codes(T) => variant = T.default
    /\ T.default = "NotCoded"

\* Witness of C1: '9' given to ConferencePublication, which lists 0, 1, |.
DecodeFallbackReached ==
  op = "from_primitive" /\ table = "ConferencePublication" /\ key = 57
    /\ variant = "NotCoded"

\* C2: decoding the canonical key of a variant gives the variant back, for
\* every variant of every table, the fallback included; no two variants of
\* a table share a key.
VariantRoundTrip ==
  op = "into" =>
    LET T == TableOf(table) IN
    /\ from_primitive(T, key) = variant
    /\ \A e \in T.variants : e[2] = key => e[1] = variant

\* Witness of C2: the fallback of NatureOfContents encoded as '|'.
VariantRoundTripReached ==
  op = "into" /\ table = "NatureOfContents" /\ variant = "NotCoded" /\ key = NoAttempt

\* C3: re-encoding a decoded key gives the key back when some variant of
\* the table has it, and the fallback's key ('|', "||" for the two-byte
\* tables) otherwise.
KeyRoundTripOrFallback ==
  op = "from_primitive" =>
    LET T == TableOf(table) IN
    /\ key \in Codes(T) => into_primitive(T, variant) = key
    /\ key \notin Codes(T) => into_primitive(T, variant) = NoAttemptKey(T)

\* Witness of C3: '9' given to TargetAudience decodes to NotCoded, which
\* encodes as '|'.
LossyRoundTripReached ==
  op = "from_primitive" /\ table = "TargetAudience" /\ key = 57
    /\ into_primitive(TableOf(table), variant) = NoAttempt

\* C4 as stated: in every table '#' and '|' decode to different variants.
FillersNeverMerged ==
  op = "from_primitive" /\ key = BlankKey(TableOf(table)) =>
    variant # from_primitive(TableOf(table), NoAttemptKey(TableOf(table)))

\* C4 amended: in every table that lists a '#' ("##") variant, '#' and '|'
\* decode to different variants; in a table that lists none, '#' decodes to
\* the fallback NotCoded, the variant '|' decodes to.
FillersDistinctWhereListed ==
  op = "from_primitive" /\ key = BlankKey(TableOf(table)) =>
    LET T == TableOf(table) IN
    IF BlankKey(T) \in Codes(T)
    THEN variant # from_primitive(T, NoAttemptKey(T))
    ELSE variant = T.default /\ from_primitive(T, NoAttemptKey(T)) = T.default

\* Witness of C4: '#' given to Illustration is None, not NotCoded.
BlankDecodedDistinct ==
  op = "from_primitive" /\ table = "Illustration" /\ key = Blank /\ variant = "None"

\* C5: packing is injective: a pair of code bytes other than the packed
\* one has another key, and no two variants of Projection or of
\* FormOfComposition have the same key.
PackInjective ==
  /\ op = "pack" =>
       \A h \in CodeAlphabet : \A l \in CodeAlphabet :
         <<h, l>> # pair => Pack(h, l) # key
  /\ op = "into" /\ TableOf(table).width = 2 =>
       \A e \in TableOf(table).variants : e[1] # variant => e[2] # key

\* Witness of C5: the pair "bd" packed as 0x6264.
PackReached == op = "pack" /\ pair = <<98, 100>> /\ key = 25188

\* ------------------------------------------------------------------------
\* Properties of the codec (checked under Spec).

\* The value x has the type of a field of shape s.
WellTyped(s, x) ==
  IF s.type = "bool" THEN x \in BOOLEAN
  ELSE IF s.count = 0 THEN x \in Variants(TableOf(s.type))
  ELSE /\ DOMAIN x = 1..s.count
       /\ \A i \in 1..s.count : x[i] \in Variants(TableOf(s.type))

\* Element i (0-based) of field n of record r.
ElementOf(r, n, i) ==
  IF ShapeOf(r.kind, n).count = 0 THEN r.fields[n] ELSE r.fields[n][i + 1]

\* C6: decode is total: for every kind and every field of any length and
\* content, the empty one included, the record is of the arm of the kind
\* given and every field of that arm holds a value of its type.
DecodePopulatesArm ==
  op = "decode" =>
    /\ record.kind = kind
    /\ DOMAIN record.fields = FieldNames(kind)
    /\ \A s \in Shape(kind) : WellTyped(s, record.fields[s.field])

\* Witness of C6: the empty field decoded as Music.
EmptyFieldDecoded ==
  op = "decode" /\ kind = "Music" /\ field = <<>>
    /\ record.fields["form_of_composition"] = "NotCoded"
    /\ Len(record.fields["accompanying_matter"]) = 6

\* C7: the re-encoding of a decoded field has exactly the fixed width, for
\* fields shorter than, as long as and longer than the width.
ReencodedWidth ==
  op = "reencode" => Len(output) = 18 /\ DOMAIN output = 1..FieldWidth

\* Witness of C7: a field of 19 bytes re-encoded as 18.
LongFieldReencoded == op = "reencode" /\ Len(field) = 19 /\ Len(output) = 18

\* C8: encode is total over every well-typed record: the output has the
\* fixed width and holds bytes, whatever the arm, the variants and the
\* position-0 booleans.
EncodeTotal ==
  op = "encode" =>
    /\ \A s \in Shape(record.kind) : WellTyped(s, record.fields[s.field])
    /\ Len(output) = 18
    /\ \A p \in 1..Len(output) : output[p] \in U8

\* Witness of C8: a Music record with manuscript and not musical encoded.
UnlistedBooleansEncoded ==
  op = "encode" /\ kind = "Music" /\ record.fields["manuscript"]
    /\ ~record.fields["musical"] /\ Len(output) = 18

\* C9: a position the field does not reach reads as the fallback byte: an
\* element whose slice starts at or beyond the end of the field is
\* NotCoded, and a two-byte element with only its first byte present is
\* decoded from the pair (that byte, '|').
ShortFieldFallback ==
  op = "decode" =>
    \A e \in Layout(kind) :
      LET s == ShapeOf(kind, e.field) IN
      s.type # "bool" =>
        LET T == TableOf(s.type) IN
        \A i \in 0..(ElementCount(s) - 1) :
          LET o == e.first + i * T.width IN
          /\ o >= Len(field) => ElementOf(record, e.field, i) = "NotCoded"
          /\ (T.width = 2 /\ o + 1 = Len(field)) =>
               ElementOf(record, e.field, i) = from_primitive(T, Pack(field[o + 1], NoAttempt))

\* Witness of C9: a Map field of 6 bytes: projection has its first byte
\* only, cartographic_type none.
HalfSliceDecoded ==
  op = "decode" /\ kind = "Map" /\ Len(field) = 6 /\ field[6] = 97
    /\ record.fields["projection"] = "NotCoded"
    /\ record.fields["cartographic_type"] = "NotCoded"
    /\ record.fields["relief"][4] = "None"

\* C10: the bytes of a field beyond the fixed width do not affect the
\* record: decoding a longer field gives the record of its first 18 bytes.
TrailingBytesIgnored ==
  op = "decode" /\ Len(field) > FieldWidth =>
    record = Decode(kind, SubSeq(field, 1, FieldWidth))

\* Witness of C10: a Map field of 19 bytes whose last byte is a listed code.
LongFieldDecoded ==
  op = "decode" /\ kind = "Map" /\ Len(field) = 19 /\ field[19] = 97
    /\ field[18] = Blank
    /\ record.fields["special_format_characteristics"] = <<"None", "None">>

\* C11: the re-encoding of a decoded field is a fixed point of decode then
\* encode: decoding it and encoding the record gives it back byte for byte.
CanonicalFixedPoint ==
  op = "reencode" => Encode(Decode(kind, output)) = output

\* Witness of C11: a Map field with an unlisted byte and the listed
\* projection "ad" re-encoded with '|' at the unbound position 7.
CanonicalReached ==
  op = "reencode" /\ kind = "Map" /\ Len(field) = 18
    /\ field[6] = 97 /\ field[7] = 100 /\ field[8] = Blank
    /\ output[6] = 97 /\ output[7] = 100 /\ output[8] = NoAttempt
    /\ record.fields["projection"] = "Orthographic"

\* C12 as stated: the Book field "a####j######00000#0" decodes to a record
\* with manuscript true and the four illustrations None.
ScenarioManuscriptTrue ==
  op = "decode" /\ kind = "Book" /\ field = BookScenario =>
    /\ record.fields["manuscript"] = TRUE
    /\ record.fields["illustrations"] = <<"None", "None", "None", "None">>

\* C12 amended: the Book field "a####j######00000#0" decodes to a record
\* with manuscript false (position 0 is 'a'; 't' is the byte of a
\* manuscript) and the four illustrations None, the variant of '#'.
ScenarioManuscriptFalse ==
  op = "decode" /\ kind = "Book" /\ field = BookScenario =>
    /\ record.fields["manuscript"] = FALSE
    /\ record.fields["illustrations"] = <<"None", "None", "None", "None">>
    /\ \A i \in 1..4 : record.fields["illustrations"][i] # Illustration.default

\* Witness of C12: the scenario field decoded as a Book.
ScenarioDecoded ==
  op = "decode" /\ kind = "Book" /\ field = BookScenario
    /\ record.fields["target_audience"] = "Juvenile"

\* The position-0 booleans of a decoded Music record.
MusicBooleans(r) == <<r.fields["recorded"], r.fields["manuscript"], r.fields["musical"]>>

\* C14: position 0 maps to the booleans by a fixed table: Book a is not a
\* manuscript and t is; Map e is not a manuscript and f is; Music c is
\* (recorded, manuscript, musical) = (true, false, true), d is (true, true,
\* true), i is (false, false, false) and j is (false, false, true).
Position0Table ==
  op = "decode" /\ Len(field) > 0 =>
    /\ kind = "Book" /\ field[1] = 97 => record.fields["manuscript"] = FALSE
    /\ kind = "Book" /\ field[1] = 116 => record.fields["manuscript"] = TRUE
    /\ kind = "Map" /\ field[1] = 101 => record.fields["manuscript"] = FALSE
    /\ kind = "Map" /\ field[1] = 102 => record.fields["manuscript"] = TRUE
    /\ kind = "Music" /\ field[1] = 99 => MusicBooleans(record) = <<TRUE, FALSE, TRUE>>
    /\ kind = "Music" /\ field[1] = 100 => MusicBooleans(record) = <<TRUE, TRUE, TRUE>>
    /\ kind = "Music" /\ field[1] = 105 => MusicBooleans(record) = <<FALSE, FALSE, FALSE>>
    /\ kind = "Music" /\ field[1] = 106 => MusicBooleans(record) = <<FALSE, FALSE, TRUE>>

\* Witness of C14: the byte c decoded at position 0 of a Music field.
MusicPosition0Decoded ==
  op = "decode" /\ kind = "Music" /\ field = <<99>>
    /\ MusicBooleans(record) = <<TRUE, FALSE, TRUE>>

\* C15: in every decoded Music record, whatever byte position 0 holds and
\* also when the field is empty, manuscript implies recorded and musical,
\* and recorded implies musical.
MusicBooleansImply ==
  op = "decode" /\ kind = "Music" =>
    /\ record.fields["manuscript"] => record.fields["recorded"] /\ record.fields["musical"]
    /\ record.fields["recorded"] => record.fields["musical"]

\* Witness of C15: an unlisted byte at position 0 of a Music field.
MusicUnlistedPosition0 ==
  op = "decode" /\ kind = "Music" /\ field = <<57>>
    /\ MusicBooleans(record) = <<FALSE, FALSE, TRUE>>

\* The key the T.width bytes of f from position o (0-based) make.
KeyAt(f, o, T) == IF T.width = 1 THEN f[o + 1] ELSE f[o + 1] * 256 + f[o + 2]

\* C16: element i of a decoded sequence is the decoding of the bytes at
\* offset o + i * w, and encode writes the encoding of element i at that
\* offset: Book illustrations[i] is byte 1 + i, Music
\* accompanying_matter[i] byte 7 + i, ContinuingResources
\* nature_of_content[i] byte 8 + i, and so for every bound field.
SequenceOrder ==
  /\ op = "decode" =>
       /\ \A e \in Layout(kind) :
            LET s == ShapeOf(kind, e.field) IN
            s.type # "bool" =>
              \A i \in 0..(ElementCount(s) - 1) :
                LET T == TableOf(s.type)
                    o == e.first + i * T.width
                IN o + T.width <= Len(field) =>
                     ElementOf(record, e.field, i) = from_primitive(T, KeyAt(field, o, T))
       /\ kind = "Book" =>
            \A i \in 0..3 : 1 + i < Len(field) =>
              record.fields["illustrations"][i + 1] = from_primitive(Illustration, field[2 + i])
       /\ kind = "Music" =>
            \A i \in 0..5 : 7 + i < Len(field) =>
              record.fields["accompanying_matter"][i + 1]
                = from_primitive(AccompanyingMatter, field[8 + i])
       /\ kind = "ContinuingResources" =>
            \A i \in 0..2 : 8 + i < Len(field) =>
              record.fields["nature_of_content"][i + 1]
                = from_primitive(NatureOfContents, field[9 + i])
  /\ op \in {"reencode", "encode"} =>
       /\ \A e \in Layout(kind) :
            LET s == ShapeOf(kind, e.field) IN
            s.type # "bool" =>
              \A i \in 0..(ElementCount(s) - 1) :
                LET T == TableOf(s.type)
                    o == e.first + i * T.width
                IN KeyAt(output, o, T) = into_primitive(T, ElementOf(record, e.field, i))
       /\ kind = "Book" =>
            \A i \in 0..3 :
              output[2 + i] = into_primitive(Illustration, record.fields["illustrations"][i + 1])
       /\ kind = "Music" =>
            \A i \in 0..5 :
              output[8 + i]
                = into_primitive(AccompanyingMatter, record.fields["accompanying_matter"][i + 1])
       /\ kind = "ContinuingResources" =>
            \A i \in 0..2 :
              output[9 + i]
                = into_primitive(NatureOfContents, record.fields["nature_of_content"][i + 1])

\* Witness of C16: a ContinuingResources field with a, d at positions 9,
\* 10 decoded and encoded in that order.
OrderedSequenceReencoded ==
  op = "reencode" /\ kind = "ContinuingResources" /\ Len(field) = 18
    /\ field[10] = 97 /\ field[11] = 100
    /\ record.fields["nature_of_content"] = <<"None", "Abstracts", "Dictionaries">>
    /\ output[9] = Blank /\ output[10] = 97 /\ output[11] = 100

\* C17: in the output of encode every offset of the fixed width that is
\* bound to no field of the record holds '|': offset 15 of Book, offsets
\* 0-4, 7, 8, 10 and 12-17 of ComputerFile, every offset but 6 of
\* MixedMaterials, whatever the decoded field had there.
UnboundOffsetsPadded ==
  op \in {"reencode", "encode"} =>
    /\ \A p \in 0..(FieldWidth - 1) :
         (\A e \in Layout(kind) : p < e.first \/ p > e.last) => output[p + 1] = 124
    /\ kind = "Book" => output[16] = 124
    /\ kind = "ComputerFile" =>
         \A p \in {0, 1, 2, 3, 4, 7, 8, 10, 12, 13, 14, 15, 16, 17} : output[p + 1] = 124
    /\ kind = "MixedMaterials" => \A p \in (0..17) \ {6} : output[p + 1] = 124

\* Witness of C17: a ComputerFile field with a, d at the unbound offsets 7,
\* 8 re-encoded with '|' there.
UnboundOffsetOverwritten ==
  op = "reencode" /\ kind = "ComputerFile" /\ Len(field) = 18
    /\ field[8] = 97 /\ field[9] = 100 /\ field[10] = Blank
    /\ output[8] = 124 /\ output[9] = 124 /\ output[10] = 124
    /\ output[7] = Blank

\* C18: a two-character code is keyed first byte * 256 + second byte:
\* decode looks the pair at offsets o, o + 1 up under that key, encode
\* writes the high byte of the key at o and the low byte at o + 1, a pair
\* that is listed only the other way round decodes to NotCoded, and both
\* bytes of every listed key are lowercase letters, digits, '#' or '|'.
PairKeyOrder ==
  /\ \A T \in {Projection, FormOfComposition} : \A e \in T.variants :
       LET h == e[2] \div 256
           l == e[2] % 256
       IN /\ h \in CodeAlphabet /\ l \in CodeAlphabet
          /\ l * 256 + h \notin Codes(T) => from_primitive(T, l * 256 + h) = "NotCoded"
  /\ op = "decode" /\ kind = "Map" /\ Len(field) >= 7 =>
       record.fields["projection"] = from_primitive(Projection, field[6] * 256 + field[7])
  /\ op = "decode" /\ kind = "Music" /\ Len(field) >= 3 =>
       record.fields["form_of_composition"]
         = from_primitive(FormOfComposition, field[2] * 256 + field[3])
  /\ op \in {"reencode", "encode"} /\ kind = "Map" =>
       /\ output[6] = into_primitive(Projection, record.fields["projection"]) \div 256
       /\ output[7] = into_primitive(Projection, record.fields["projection"]) % 256
  /\ op \in {"reencode", "encode"} /\ kind = "Music" =>
       /\ output[2]
            = into_primitive(FormOfComposition, record.fields["form_of_composition"]) \div 256
       /\ output[3]
            = into_primitive(FormOfComposition, record.fields["form_of_composition"]) % 256

\* Witness of C18: the Map projection slice "ea" decoded to NotCoded, "ae"
\* being AzimuthalEquidistant.
SwappedPairDecoded ==
  op = "decode" /\ kind = "Map" /\ field = SwappedPairScenario
    /\ record.fields["projection"] = "NotCoded"
    /\ from_primitive(Projection, 97 * 256 + 101) = "AzimuthalEquidistant"

\* The layout entries bound to field n of kind k, and to offset p.
EntriesOf(k, n) == {e \in Layout(k) : e.field = n}
EntriesAt(k, p) == {e \in Layout(k) : e.first <= p /\ p <= e.last}

\* The fields in which two records of the same kind differ.
Differing(r1, r2) == {n \in FieldNames(r1.kind) : r1.fields[n] # r2.fields[n]}

\* The field f with byte b at offset p.
WithByte(f, p, b) == [f EXCEPT ![p + 1] = b]

\* The declared fields of kind k that are bound, in declaration order.
BoundInOrder(k) == SelectSeq(DeclaredOrder(k), LAMBDA n : EntriesOf(k, n) # {})

\* C19 as stated: the ranges of a kind are pairwise disjoint, in ascending
\* order and within 0..17, every field of the arm is bound to exactly one
\* range, and changing one byte of a field changes at most one field of
\* the record.
LayoutPartitionsField ==
  op = "decode" =>
    /\ \A e1 \in Layout(kind) : \A e2 \in Layout(kind) :
         e1 # e2 => e1.last < e2.first \/ e2.last < e1.first
    /\ \A i \in 1..Len(BoundInOrder(kind)) : \A j \in 1..Len(BoundInOrder(kind)) :
         i < j => EntryOf(kind, BoundInOrder(kind)[i]).last
                    < EntryOf(kind, BoundInOrder(kind)[j]).first
    /\ \A e \in Layout(kind) : 0 <= e.first /\ e.first <= e.last /\ e.last <= 17
    /\ \A n \in FieldNames(kind) : Cardinality(EntriesOf(kind, n)) = 1
    /\ Len(field) = FieldWidth =>
         \A p \in 0..(FieldWidth - 1) : \A b \in SampleBytes :
           Cardinality(Differing(record, Decode(kind, WithByte(field, p, b)))) <= 1

\* C19 amended: the ranges of a kind lie within 0..17 and are in
\* non-descending declaration order; they are pairwise disjoint but for
\* Music's recorded, manuscript and musical, all three bound to offset 0;
\* every field of the arm is bound to exactly one range but Book's
\* biography, which is bound to none; and changing one byte of a field
\* changes at most the fields bound to its offset.
LayoutPositionLocal ==
  op = "decode" =>
    /\ \A e1 \in Layout(kind) : \A e2 \in Layout(kind) :
         e1 # e2 =>
           \/ e1.last < e2.first
           \/ e2.last < e1.first
           \/ /\ kind = "Music"
              /\ {e1.field, e2.field} \subseteq {"recorded", "manuscript", "musical"}
              /\ e1.first = 0 /\ e1.last = 0 /\ e2.first = 0 /\ e2.last = 0
    /\ \A i \in 1..Len(BoundInOrder(kind)) : \A j \in 1..Len(BoundInOrder(kind)) :
         i < j => EntryOf(kind, BoundInOrder(kind)[i]).first
                    <= EntryOf(kind, BoundInOrder(kind)[j]).first
    /\ \A e \in Layout(kind) : 0 <= e.first /\ e.first <= e.last /\ e.last <= 17
    /\ \A n \in FieldNames(kind) :
         Cardinality(EntriesOf(kind, n)) = IF kind = "Book" /\ n = "biography" THEN 0 ELSE 1
    /\ {DeclaredOrder(kind)[i] : i \in 1..Len(DeclaredOrder(kind))} = FieldNames(kind)
    /\ Len(field) = FieldWidth =>
         \A p \in 0..(FieldWidth - 1) : \A b \in SampleBytes :
           Differing(record, Decode(kind, WithByte(field, p, b)))
             \subseteq {e.field : e \in EntriesAt(kind, p)}

\* Witness of C19: a Music field of 18 bytes with d at offset 0; with i
\* there instead the record differs in the three booleans and nothing else.
Position0ChangesBooleans ==
  op = "decode" /\ kind = "Music" /\ Len(field) = FieldWidth /\ field[1] = 100
    /\ Differing(record, Decode(kind, WithByte(field, 0, 105)))
         = {"recorded", "manuscript", "musical"}
====
